---------------------------- MODULE Spec2Model ----------------------------
(***************************************************************************)
(* spark-kv: a key value store that appends every mutation to a write      *)
(* ahead log (WAL) of newline terminated JSON records and keeps an in      *)
(* memory index from key to the LINE NUMBER of the record that holds the   *)
(* key's value (src/src/lib.rs).                                           *)
(*                                                                         *)
(* Text is modelled as a sequence of one-character strings, so that the    *)
(* file is a sequence of bytes: records of different lengths, writes at a  *)
(* file position and the splitting into lines are all computed.            *)
(***************************************************************************)
EXTENDS Integers, Sequences, FiniteSets, TLC

VARIABLES
    mode,     \* "none": no KvStore exists; "append": the store came from open
              \* (O_APPEND handle); "rw": the store came from KvStore::new
              \* over a plain read/write handle
    wal,      \* the bytes of the file behind KvStore.wal
    cursor,   \* the file position of the handle KvStore.wal
    data,     \* KvStore.data: key -> line number
    hist,     \* the calls made so far, each with its result
    snap      \* what get returned for every key when the store was dropped

vars == <<mode, wal, cursor, data, hist, snap>>

----------------------------------------------------------------------------
(* Bounds and inputs *)

MaxOps == 5        \* calls per behaviour
MaxReopen == 1     \* drops of a store followed by open on the same directory
MaxFaults == 1     \* calls that fail on an I/O error per behaviour
MaxFaultOps == 4   \* calls per behaviour when calls may fail
MaxForeignLines == 2   \* lines of a log that open finds and did not write

Q == "\""
BS == "\\"
NL == "\n"
CR == "\r"

Keys == {<<"a">>, <<Q>>}
Values == {<<>>, <<"1">>, <<Q, NL>>}

----------------------------------------------------------------------------
(* Record codec: serde_json over WalCommand *)

Some(v) == [some |-> TRUE, v |-> v]
None == [some |-> FALSE, v |-> <<>>]

WalCommand(action, key, value) == [action |-> action, key |-> key, value |-> value]

Chars(name) ==
    CASE name = "Set" -> <<"S", "e", "t">>
      [] name = "Get" -> <<"G", "e", "t">>
      [] name = "Rm" -> <<"R", "m">>
      [] name = "action" -> <<"a", "c", "t", "i", "o", "n">>
      [] name = "key" -> <<"k", "e", "y">>
      [] name = "value" -> <<"v", "a", "l", "u", "e">>

\* serde_json's string escaping, for the characters of the model's alphabet
EscapeChar(c) ==
    CASE c = Q -> <<BS, Q>>
      [] c = BS -> <<BS, BS>>
      [] c = NL -> <<BS, "n">>
      [] c = CR -> <<BS, "r">>
      [] OTHER -> <<c>>

RECURSIVE Escape(_)
Escape(s) == IF s = <<>> THEN <<>> ELSE EscapeChar(Head(s)) \o Escape(Tail(s))

JsonStr(s) == <<Q>> \o Escape(s) \o <<Q>>

\* serde_json::to_string(&WalCommand): fields in declaration order, the value
\* field left out when it is None (skip_serializing_if)
to_string(cmd) ==
    <<"{">> \o JsonStr(Chars("action")) \o <<":">> \o JsonStr(Chars(cmd.action))
        \o <<",">> \o JsonStr(Chars("key")) \o <<":">> \o JsonStr(cmd.key)
        \o (IF cmd.value.some
            THEN <<",">> \o JsonStr(Chars("value")) \o <<":">> \o JsonStr(cmd.value.v)
            ELSE <<>>)
        \o <<"}">>

\* the bytes set and remove write: the record and a newline
SerializedCommand(cmd) == to_string(cmd) \o <<NL>>

NoParse == [ok |-> FALSE, v |-> <<>>, next |-> 0]

\* the body of a JSON string from position i, up to its closing quote
RECURSIVE ParseStrBody(_, _, _)
ParseStrBody(s, i, acc) ==
    IF i > Len(s) THEN NoParse
    ELSE IF s[i] = Q THEN [ok |-> TRUE, v |-> acc, next |-> i + 1]
    ELSE IF s[i] = BS
         THEN IF i + 1 > Len(s) THEN NoParse
              ELSE IF s[i + 1] = Q THEN ParseStrBody(s, i + 2, Append(acc, Q))
              ELSE IF s[i + 1] = BS THEN ParseStrBody(s, i + 2, Append(acc, BS))
              ELSE IF s[i + 1] = "n" THEN ParseStrBody(s, i + 2, Append(acc, NL))
              ELSE IF s[i + 1] = "r" THEN ParseStrBody(s, i + 2, Append(acc, CR))
              ELSE NoParse
    ELSE IF s[i] \in {NL, CR} THEN NoParse
    ELSE ParseStrBody(s, i + 1, Append(acc, s[i]))

ParseStr(s, i) ==
    IF i <= Len(s) /\ s[i] = Q THEN ParseStrBody(s, i + 1, <<>>) ELSE NoParse

\* position after the literal text p at position i of s, 0 when it is not there
Expect(s, i, p) ==
    IF i >= 1 /\ i + Len(p) - 1 <= Len(s) /\ SubSeq(s, i, i + Len(p) - 1) = p
    THEN i + Len(p)
    ELSE 0

DecodeError == [ok |-> FALSE, cmd |-> WalCommand("Get", <<>>, None)]

Decoded(action, key, value) == [ok |-> TRUE, cmd |-> WalCommand(action, key, value)]

\* the variant of KvAction a decoded action string names, "" when none
VariantOf(chars) ==
    IF chars = Chars("Set") THEN "Set"
    ELSE IF chars = Chars("Get") THEN "Get"
    ELSE IF chars = Chars("Rm") THEN "Rm"
    ELSE ""

\* the closing brace at position i ends the line
Closes(line, i) == Expect(line, i, <<"}">>) = Len(line) + 1

AfterValue(line, action, key, val) ==
    IF val.ok /\ Closes(line, val.next) THEN Decoded(action, key, Some(val.v))
    ELSE DecodeError

AfterValueName(line, action, key, p) ==
    IF p = 0 THEN DecodeError ELSE AfterValue(line, action, key, ParseStr(line, p))

AfterKey(line, action, key) ==
    IF ~key.ok THEN DecodeError
    ELSE IF Closes(line, key.next) THEN Decoded(action, key.v, None)
    ELSE AfterValueName(line, action, key.v,
                        Expect(line, key.next,
                               <<",">> \o JsonStr(Chars("value")) \o <<":">>))

AfterKeyName(line, action, p) ==
    IF p = 0 THEN DecodeError ELSE AfterKey(line, action, ParseStr(line, p))

AfterAction(line, act) ==
    IF ~act.ok \/ VariantOf(act.v) = "" THEN DecodeError
    ELSE AfterKeyName(line, VariantOf(act.v),
                      Expect(line, act.next, <<",">> \o JsonStr(Chars("key")) \o <<":">>))

AfterBrace(line, p) ==
    IF p = 0 THEN DecodeError ELSE AfterAction(line, ParseStr(line, p))

\* serde_json::from_str::<WalCommand>(line), on compact objects with the
\* fields in declaration order: action is one of the three variants of
\* KvAction, value is optional whatever the action, and nothing may follow
\* the closing brace. Every other line of the model is refused by serde_json
\* too: it is empty or starts with no brace, or it is a cut record followed
\* by another.
FromStr(line) ==
    AfterBrace(line, Expect(line, 1, <<"{">> \o JsonStr(Chars("action")) \o <<":">>))

\* a line without the "\r" that ends it
StripCR(line) ==
    IF line # <<>> /\ line[Len(line)] = CR THEN SubSeq(line, 1, Len(line) - 1) ELSE line

\* str::lines(): the text between one "\n" and the next, a "\r" right before
\* the "\n" dropped with it; what follows the last "\n" is a line too unless
\* it is empty
Lines(s) ==
    LET ends == {i \in 1..Len(s) : s[i] = NL}
        n == Cardinality(ends)
        end(j) == IF j = 0 THEN 0
                  ELSE CHOOSE i \in ends : Cardinality({x \in ends : x < i}) = j - 1
        whole == [j \in 1..n |-> StripCR(SubSeq(s, end(j - 1) + 1, end(j) - 1))]
        rest == SubSeq(s, end(n) + 1, Len(s))
    IN  IF rest = <<>> THEN whole ELSE Append(whole, rest)

----------------------------------------------------------------------------
(* Results of the calls *)

Ok == [tag |-> "Ok", v |-> <<>>, e |-> ""]
OkSome(v) == [tag |-> "Some", v |-> v, e |-> ""]
OkNone == [tag |-> "None", v |-> <<>>, e |-> ""]
Err(e) == [tag |-> "Err", v |-> <<>>, e |-> e]

Call(op, key, value, res) == [op |-> op, key |-> key, value |-> value, res |-> res]

Last == hist[Len(hist)]

----------------------------------------------------------------------------
(* The file behind KvStore.wal *)

\* File::write_all(bytes) at position pos: a handle opened with append(true)
\* writes at the end of the file whatever its position, any other handle
\* writes at its position, over the bytes that are there; no bytes, no write
WriteAll(m, file, pos, bytes) ==
    IF bytes = <<>> THEN [file |-> file, pos |-> pos]
    ELSE IF m = "append"
    THEN [file |-> file \o bytes, pos |-> Len(file) + Len(bytes)]
    ELSE [file |-> SubSeq(file, 1, pos) \o bytes
                       \o SubSeq(file, pos + Len(bytes) + 1, Len(file)),
          pos |-> pos + Len(bytes)]

\* mutant of Insert: a key that is in the index keeps its entry
Insert_KeepsOld(d, key, line) ==
    IF key \in DOMAIN d THEN d ELSE [k \in DOMAIN d \cup {key} |-> IF k = key THEN line ELSE d[k]]

\* mutant of Delete: every key leaves the index with the one removed
Delete_Clears(d, key) == [k \in {} |-> 0]

\* mutant of Delete: the key stays in the index
Delete_Keeps(d, key) == d

\* HashMap::insert and HashMap::remove on KvStore.data
Insert(d, key, line) == [k \in DOMAIN d \cup {key} |-> IF k = key THEN line ELSE d[k]]
Delete(d, key) == [k \in DOMAIN d \ {key} |-> d[k]]

----------------------------------------------------------------------------
(* KvStore::get *)

\* mutant of GetResult: a key that is not in the index is an error, as it is
\* for remove
GetResult_AbsentIsError(d, file, key) ==
    IF key \in DOMAIN d
    THEN LET lines == Lines(file)
         IN  IF d[key] < Len(lines)
             THEN LET command == FromStr(lines[d[key] + 1])
                  IN  IF ~command.ok THEN Err("Decode")
                      ELSE IF command.cmd.value.some THEN OkSome(command.cmd.value.v)
                      ELSE Err("IndexError")
             ELSE OkNone
    ELSE Err("KeyNotFound")

\* the result of get(key) on index d and file contents file
GetResult(d, file, key) ==
    IF key \in DOMAIN d
    THEN LET lines == Lines(file)
             log_pointer == d[key]
         IN  IF log_pointer < Len(lines)
             THEN LET command == FromStr(lines[log_pointer + 1])
                  IN  IF ~command.ok THEN Err("Decode")
                      ELSE IF command.cmd.value.some THEN OkSome(command.cmd.value.v)
                      ELSE Err("IndexError")
             ELSE OkNone
    ELSE OkNone

\* the position of the handle after get(key): seek(Start(0)), and the whole
\* file read only when the key is in the index
GetCursor(d, file, key) == IF key \in DOMAIN d THEN Len(file) ELSE 0

Get(key) ==
    /\ mode \in {"append", "rw"}
    /\ Len(hist) < MaxOps
    /\ cursor' = GetCursor(data, wal, key)
    /\ hist' = Append(hist, Call("get", key, <<>>, GetResult(data, wal, key)))
    /\ UNCHANGED <<mode, wal, data, snap>>

----------------------------------------------------------------------------
(* KvStore::set *)

\* mutant of SetPointer: the number of lines, not the number of the last line
SetPointer_LineCount(file) == Len(Lines(file))

\* the index entry set writes: the number of lines of the file read back
\* from its start, less one
SetPointer(file) == Len(Lines(file)) - 1

Set(key, value) ==
    /\ mode \in {"append", "rw"}
    /\ Len(hist) < MaxOps
    /\ LET w == WriteAll(mode, wal, cursor,
                         SerializedCommand(WalCommand("Set", key, Some(value))))
       IN  /\ wal' = w.file
           /\ cursor' = Len(w.file)
           /\ data' = Insert(data, key, SetPointer(w.file))
    /\ hist' = Append(hist, Call("set", key, value, Ok))
    /\ UNCHANGED <<mode, snap>>

----------------------------------------------------------------------------
(* KvStore::remove *)

\* mutant of Remove: removing a key that is not in the index succeeds and is
\* logged like any other removal
Remove_Idempotent(key) ==
    /\ mode \in {"append", "rw"}
    /\ Len(hist) < MaxOps
    /\ LET w == WriteAll(mode, wal, cursor,
                         SerializedCommand(WalCommand("Rm", key, None)))
       IN  /\ wal' = w.file
           /\ cursor' = w.pos
           /\ data' = Delete(data, key)
           /\ hist' = Append(hist, Call("remove", key, <<>>, Ok))
    /\ UNCHANGED <<mode, snap>>

Remove(key) ==
    /\ mode \in {"append", "rw"}
    /\ Len(hist) < MaxOps
    /\ IF key \in DOMAIN data
       THEN LET w == WriteAll(mode, wal, cursor,
                              SerializedCommand(WalCommand("Rm", key, None)))
            IN  /\ wal' = w.file
                /\ cursor' = w.pos
                /\ data' = Delete(data, key)
                /\ hist' = Append(hist, Call("remove", key, <<>>, Ok))
       ELSE /\ hist' = Append(hist, Call("remove", key, <<>>, Err("KeyNotFound")))
            /\ UNCHANGED <<wal, cursor, data>>
    /\ UNCHANGED <<mode, snap>>

----------------------------------------------------------------------------
(* KvStore::new and KvStore::open *)

EmptyIndex == <<>>

\* the loop of open over the lines of the log: the index, or the failure of
\* the first line that does not decode
RECURSIVE ReplayFrom(_, _, _)
ReplayFrom(lines, index, d) ==
    IF index + 1 > Len(lines) THEN [ok |-> TRUE, data |-> d]
    ELSE LET command == FromStr(lines[index + 1])
         IN  IF ~command.ok THEN [ok |-> FALSE, data |-> EmptyIndex]
             ELSE IF command.cmd.action = "Set"
                  THEN ReplayFrom(lines, index + 1, Insert(d, command.cmd.key, index))
             ELSE IF command.cmd.action = "Rm"
                  THEN ReplayFrom(lines, index + 1, Delete(d, command.cmd.key))
             ELSE ReplayFrom(lines, index + 1, d)

Replay(file) == ReplayFrom(Lines(file), 0, EmptyIndex)

\* open(path): the file kvs.db of the directory, created when missing, and
\* the index replayed from it
Open ==
    /\ mode = "none"
    /\ Len(hist) < MaxOps
    /\ LET r == Replay(wal)
       IN  IF r.ok
           THEN /\ mode' = "append"
                /\ data' = r.data
                /\ cursor' = Len(wal)
                /\ hist' = Append(hist, Call("open", <<>>, <<>>, Ok))
           ELSE /\ hist' = Append(hist, Call("open", <<>>, <<>>, Err("Decode")))
                /\ UNCHANGED <<mode, data, cursor>>
    /\ UNCHANGED <<wal, snap>>

\* KvStore::new(file) over an empty file opened for reading and writing, as
\* in the documentation's examples (tempfile())
New ==
    /\ mode = "none"
    /\ wal = <<>>
    /\ Len(hist) < MaxOps
    /\ mode' = "rw"
    /\ data' = EmptyIndex
    /\ cursor' = 0
    /\ hist' = Append(hist, Call("new", <<>>, <<>>, Ok))
    /\ UNCHANGED <<wal, snap>>

Reopens == Cardinality({i \in 1..Len(hist) : hist[i].op = "drop"})

\* the store returned by open goes out of scope: the handle is closed, the
\* index is gone and the file stays in the directory
Drop ==
    /\ mode = "append"
    /\ Len(hist) < MaxOps
    /\ Reopens < MaxReopen
    /\ mode' = "none"
    /\ data' = EmptyIndex
    /\ cursor' = 0
    /\ snap' = [k \in Keys |-> GetResult(data, wal, k)]
    /\ hist' = Append(hist, Call("drop", <<>>, <<>>, Ok))
    /\ UNCHANGED wal

----------------------------------------------------------------------------
(* The store used without I/O failures, from an empty directory or file *)

Init ==
    /\ mode = "none"
    /\ wal = <<>>
    /\ cursor = 0
    /\ data = EmptyIndex
    /\ hist = <<>>
    /\ snap = <<>>

Next ==
    \/ Open
    \/ New
    \/ Drop
    \/ \E k \in Keys, v \in Values : Set(k, v)
    \/ \E k \in Keys : Get(k)
    \/ \E k \in Keys : Remove(k)

Spec == Init /\ [][Next]_vars

----------------------------------------------------------------------------
(* Calls that fail on an I/O error: every `?` of set, remove, get and open *)

Faults == Cardinality({i \in 1..Len(hist) :
                          hist[i].res.e \notin {"", "KeyNotFound", "Decode", "IndexError"}})

\* how many bytes a write_all or a read_to_string that fails has moved: none,
\* half of them, or all but the last
Partial(len) == {n \in {0, len \div 2, len - 1} : 0 <= n /\ n < len}

\* the bytes of a record that are in the file when the step `at` of set or
\* remove fails: none when the record could not be serialized, a part when
\* write_all failed, all of them when the flush or the seek after it failed
Written(at, bytes) ==
    IF at = "Serialize" THEN {0}
    ELSE IF at = "Write" THEN Partial(Len(bytes))
    ELSE {Len(bytes)}

\* mutant of SetFails: the index is updated before the record is written
SetFails_IndexFirst(key, value, at, n) ==
    /\ mode \in {"append", "rw"}
    /\ Len(hist) < MaxOps
    /\ Faults < MaxFaults
    /\ LET bytes == SerializedCommand(WalCommand("Set", key, Some(value)))
           w == WriteAll(mode, wal, cursor, SubSeq(bytes, 1, n))
       IN  /\ n \in Written(at, bytes)
           /\ wal' = w.file
           /\ cursor' = w.pos
           /\ data' = Insert(data, key, Len(Lines(wal)))
    /\ hist' = Append(hist, Call("set", key, value, Err(at)))
    /\ UNCHANGED <<mode, snap>>

\* set(key, value) returning the error of its step `at`; a failed write_all
\* has written the first n bytes of the record
SetFails(key, value, at, n) ==
    /\ mode \in {"append", "rw"}
    /\ Len(hist) < MaxOps
    /\ Faults < MaxFaults
    /\ LET bytes == SerializedCommand(WalCommand("Set", key, Some(value)))
           w == WriteAll(mode, wal, cursor,
                         SubSeq(bytes, 1, n))
       IN  /\ n \in Written(at, bytes)
           /\ wal' = w.file
           /\ cursor' = w.pos
    /\ hist' = Append(hist, Call("set", key, value, Err(at)))
    /\ UNCHANGED <<mode, data, snap>>

\* how many bytes the read_to_string of set has read when it fails: none, or
\* half of the file
ReadSoFar(len) == {n \in {0, len \div 2} : n < len}

\* the value of `wal_commands.len() - 1` when the count is 0 and the build
\* wraps on overflow: usize::MAX, which is 2^64 - 1 and is kept here at the
\* largest integer of the model checker; only its being past every line of
\* the file matters
USIZE_MAX == 2147483647

\* returns of set whose read_to_string failed and was dropped by `let _ =`
OkIgnored(e) == [tag |-> "Ok", v |-> <<>>, e |-> e]
Panic(e) == [tag |-> "Panic", v |-> <<>>, e |-> e]

\* set(key, value) whose read_to_string fails after n bytes of the file: the
\* error is dropped and the index entry is counted from the lines that were
\* read.  With no line read the subtraction overflows: a build with overflow
\* checks panics and the store is unwound, a build without them stores the
\* wrapped value and returns Ok.
SetReadIgnored(key, value, n, checked) ==
    /\ mode \in {"append", "rw"}
    /\ Len(hist) < MaxOps
    /\ Faults < MaxFaults
    /\ LET w == WriteAll(mode, wal, cursor,
                         SerializedCommand(WalCommand("Set", key, Some(value))))
           wal_data == SubSeq(w.file, 1, n)
           wal_commands == Lines(wal_data)
       IN  /\ n \in ReadSoFar(Len(w.file))
           /\ wal' = w.file
           /\ IF Len(wal_commands) > 0
              THEN /\ data' = Insert(data, key, Len(wal_commands) - 1)
                   /\ cursor' = n
                   /\ hist' = Append(hist, Call("set", key, value, OkIgnored("Read")))
                   /\ UNCHANGED mode
              ELSE IF checked
              THEN /\ mode' = "none"
                   /\ data' = EmptyIndex
                   /\ cursor' = 0
                   /\ hist' = Append(hist, Call("set", key, value, Panic("Read")))
              ELSE /\ data' = Insert(data, key, USIZE_MAX)
                   /\ cursor' = n
                   /\ hist' = Append(hist, Call("set", key, value, OkIgnored("Read")))
                   /\ UNCHANGED mode
    /\ UNCHANGED snap

\* remove(key) of a key of the index returning the error of its step `at`
RemoveFails(key, at, n) ==
    /\ mode \in {"append", "rw"}
    /\ Len(hist) < MaxOps
    /\ Faults < MaxFaults
    /\ key \in DOMAIN data
    /\ LET bytes == SerializedCommand(WalCommand("Rm", key, None))
           w == WriteAll(mode, wal, cursor,
                         SubSeq(bytes, 1, n))
       IN  /\ n \in Written(at, bytes)
           /\ wal' = w.file
           /\ cursor' = w.pos
    /\ hist' = Append(hist, Call("remove", key, <<>>, Err(at)))
    /\ UNCHANGED <<mode, data, snap>>

\* get(key) returning the error of its seek, or of its read after n bytes
GetFails(key, at, n) ==
    /\ mode \in {"append", "rw"}
    /\ Len(hist) < MaxOps
    /\ Faults < MaxFaults
    /\ \/ at = "Seek" /\ n = cursor
       \/ at = "Read" /\ key \in DOMAIN data /\ n \in Partial(Len(wal))
    /\ cursor' = n
    /\ hist' = Append(hist, Call("get", key, <<>>, Err(at)))
    /\ UNCHANGED <<mode, wal, data, snap>>

\* open(path) returning the error of OpenOptions::open or of its read
OpenFails(at) ==
    /\ mode = "none"
    /\ Len(hist) < MaxOps
    /\ Faults < MaxFaults
    /\ hist' = Append(hist, Call("open", <<>>, <<>>, Err(at)))
    /\ UNCHANGED <<mode, wal, cursor, data, snap>>

\* the values of the set calls that fail: escaping plays no part in a failure
FaultValues == {<<>>, <<"1">>}

\* every call may fail, so the behaviours are kept shorter than those of Spec
Short == Len(hist) < MaxFaultOps

NextFault ==
    \/ Short /\ Open
    \/ Short /\ New
    \/ Short /\ Drop
    \/ Short /\ \E k \in Keys, v \in Values : Set(k, v)
    \/ Short /\ \E k \in Keys : Get(k)
    \/ Short /\ \E k \in Keys : Remove(k)
    \/ Short /\ \E k \in Keys, v \in FaultValues, at \in {"Serialize", "Write", "Flush", "Seek"} :
          \E n \in Written(at, SerializedCommand(WalCommand("Set", k, Some(v)))) :
             SetFails(k, v, at, n)
    \/ Short /\ \E k \in Keys, v \in FaultValues, checked \in BOOLEAN :
          \E n \in ReadSoFar(Len(wal) + Len(SerializedCommand(WalCommand("Set", k, Some(v))))) :
             SetReadIgnored(k, v, n, checked)
    \/ Short /\ \E k \in Keys, at \in {"Serialize", "Write", "Flush"} :
          \E n \in Written(at, SerializedCommand(WalCommand("Rm", k, None))) :
             RemoveFails(k, at, n)
    \/ Short /\ \E k \in Keys : GetFails(k, "Seek", cursor)
    \/ Short /\ \E k \in Keys : \E n \in Partial(Len(wal)) : GetFails(k, "Read", n)
    \/ Short /\ \E at \in {"Open", "Read"} : OpenFails(at)

SpecFault == Init /\ [][NextFault]_vars

----------------------------------------------------------------------------
(* open over a log that this program did not write *)

A == <<"a">>

ForeignLines ==
    { to_string(WalCommand("Set", A, Some(<<"1">>))),
      to_string(WalCommand("Rm", A, None)),
      to_string(WalCommand("Get", A, None)),
      to_string(WalCommand("Set", A, None)),
      to_string(WalCommand("Rm", A, Some(<<"1">>))),
      <<"x">> }

RECURSIVE Concat(_)
Concat(ls) == IF ls = <<>> THEN <<>> ELSE Head(ls) \o <<NL>> \o Concat(Tail(ls))

ForeignLogs ==
    {Concat(ls) : ls \in UNION {[1..n -> ForeignLines] : n \in 0..MaxForeignLines}}

InitForeign ==
    /\ mode = "none"
    /\ wal \in ForeignLogs
    /\ cursor = 0
    /\ data = EmptyIndex
    /\ hist = <<>>
    /\ snap = <<>>

SpecForeign == InitForeign /\ [][Next]_vars

----------------------------------------------------------------------------
(* Vocabulary of the properties *)

Calls == 1..Len(hist)

\* call i is op on key, and it succeeded
Did(i, op, key) == hist[i].op = op /\ hist[i].key = key /\ hist[i].res.tag # "Err"

\* the store in use came from open: KvStore::new was never called
FromOpen == \A i \in Calls : hist[i].op # "new"

\* a step that is a call
Called == Len(hist') = Len(hist) + 1
Made == hist'[Len(hist')]

IsPrefix(s, t) == Len(s) <= Len(t) /\ SubSeq(t, 1, Len(s)) = s

\* the lines of the file that decode to a Set record of key with value
SetLines(file, key, value) ==
    {n \in 0..(Len(Lines(file)) - 1) :
        FromStr(Lines(file)[n + 1]) = Decoded("Set", key, Some(value))}

\* a line in one of the two forms of the log format
ProperRecord(line) ==
    LET c == FromStr(line)
    IN  /\ c.ok
        /\ \/ c.cmd.action = "Set" /\ c.cmd.value.some
           \/ c.cmd.action = "Rm" /\ ~c.cmd.value.some

----------------------------------------------------------------------------
(* C1: on any store, from open or from new over an empty read/write file,   *)
(* a successful set(k, v) immediately followed by get(k) returns Some(v).   *)
C1_SetThenGet ==
    \A i \in Calls :
        (/\ i > 1
         /\ hist[i].op = "get"
         /\ Did(i - 1, "set", hist[i].key))
        => hist[i].res = OkSome(hist[i - 1].value)

(* C1, for the stores that come from open only. *)
C1_SetThenGetFromOpen == FromOpen => C1_SetThenGet

(* C2: dropping a store that came from open and opening the same directory  *)
(* again gives a store whose get(k) is what it was before the drop, for     *)
(* every key k: the index replayed from the log is the index that set and   *)
(* remove maintained.                                                       *)
C2_ReplayEquivalence ==
    /\ mode = "append" => Replay(wal) = [ok |-> TRUE, data |-> data]
    /\ (/\ mode = "append"
        /\ Len(hist) >= 2
        /\ Last.op = "open"
        /\ hist[Len(hist) - 1].op = "drop")
       => \A k \in Keys : GetResult(data, wal, k) = snap[k]

C2_Witness ==
    /\ mode = "append"
    /\ Len(hist) >= 2
    /\ Last.op = "open"
    /\ hist[Len(hist) - 1].op = "drop"
    /\ \E k \in Keys :
          /\ k \notin DOMAIN data
          /\ \E v \in Values : SetLines(wal, k, v) # {}

(* C3: on a store from open, set(k, v1) followed later by set(k, v2), with  *)
(* calls on other keys only in between, makes get(k) return Some(v2): the   *)
(* log holds both Set records of k and the index entry of k is the line of  *)
(* the later one.                                                           *)
C3_Overwrite ==
    \A i, j \in Calls :
        (/\ FromOpen
         /\ i < j
         /\ hist[j].op = "set" /\ hist[j].res = Ok
         /\ Did(i, "set", hist[j].key)
         /\ \A m \in (i + 1)..(j - 1) : hist[m].key # hist[j].key)
        => LET k == hist[j].key
               v1 == hist[i].value
               v2 == hist[j].value
           IN  /\ (j < Len(hist) /\ hist[j + 1].op = "get" /\ hist[j + 1].key = k)
                      => hist[j + 1].res = OkSome(v2)
               /\ (j = Len(hist))
                      => /\ GetResult(data, wal, k) = OkSome(v2)
                         /\ k \in DOMAIN data
                         /\ data[k] \in SetLines(wal, k, v2)
                         /\ \E n \in SetLines(wal, k, v1) : n < data[k]
                         /\ \A n \in 0..(Len(Lines(wal)) - 1) : n <= data[k]

C3_Witness ==
    /\ FromOpen
    /\ Len(hist) = 5
    /\ Did(2, "set", <<"a">>) /\ hist[2].value = <<"1">>
    /\ Did(3, "set", <<Q>>)
    /\ Did(4, "set", <<"a">>) /\ hist[4].value = <<>>
    /\ Last.op = "get" /\ Last.key = <<"a">> /\ Last.res = OkSome(<<>>)

(* C4: on a store from open, set(k, v) followed by remove(k) makes get(k)   *)
(* return None, and a second remove(k) then fails with the key-not-found    *)
(* error.                                                                   *)
C4_Removal ==
    \A i \in Calls :
        (/\ FromOpen
         /\ i > 1
         /\ hist[i].op = "remove"
         /\ Did(i - 1, "set", hist[i].key))
        => LET k == hist[i].key
               IsCall(m, op) == m <= Len(hist) /\ hist[m].op = op /\ hist[m].key = k
           IN  /\ hist[i].res = Ok
               /\ i = Len(hist) => GetResult(data, wal, k) = OkNone
               /\ IsCall(i + 1, "get") => hist[i + 1].res = OkNone
               /\ IsCall(i + 1, "remove") => hist[i + 1].res = Err("KeyNotFound")
               /\ (IsCall(i + 1, "get") /\ IsCall(i + 2, "remove"))
                      => hist[i + 2].res = Err("KeyNotFound")

C4_Witness ==
    /\ FromOpen
    /\ Len(hist) = 5
    /\ Did(2, "set", <<"a">>)
    /\ Did(3, "remove", <<"a">>)
    /\ hist[4].op = "get" /\ hist[4].key = <<"a">> /\ hist[4].res = OkNone
    /\ Last.op = "remove" /\ Last.key = <<"a">> /\ Last.res = Err("KeyNotFound")

(* C5: remove(k) of a key that is not in the index returns the              *)
(* key-not-found error, appends nothing to the log and leaves the index as  *)
(* it was.                                                                  *)
C5_RemoveAbsent ==
    [][(Called /\ Made.op = "remove" /\ Made.key \notin DOMAIN data)
       => (Made.res = Err("KeyNotFound") /\ wal' = wal /\ data' = data)]_vars

C5_Witness ==
    /\ Len(hist) >= 1
    /\ Last.op = "remove"
    /\ Last.res = Err("KeyNotFound")
    /\ wal # <<>>
    /\ DOMAIN data # {}

(* C6: get(k) on a store that open just returned over an empty or new log   *)
(* returns Ok(None) for every key k.                                        *)
C6_GetOnEmpty ==
    /\ (Len(hist) >= 1 /\ Last.op = "open" /\ Last.res = Ok /\ wal = <<>>)
           => \A k \in Keys : GetResult(data, wal, k) = OkNone
    /\ (/\ Len(hist) >= 2
        /\ Last.op = "get"
        /\ hist[Len(hist) - 1].op = "open" /\ hist[Len(hist) - 1].res = Ok
        /\ wal = <<>>)
           => Last.res = OkNone

C6_Witness ==
    /\ Len(hist) = 2
    /\ hist[1].op = "open" /\ hist[1].res = Ok
    /\ Last.op = "get" /\ Last.res = OkNone
    /\ wal = <<>>

(* C7: the log is append-only on a store from open or from new: the log     *)
(* before each call is a prefix of the log after it.                        *)
C7_AppendOnly == [][IsPrefix(wal, wal')]_vars

(* C7, for the stores that come from open only. *)
C7_AppendOnlyFromOpen == [][mode = "append" => IsPrefix(wal, wal')]_vars

(* C8: when set or remove returns an error, the index is what it was before *)
(* the call.                                                                *)
C8_FailedCallKeepsIndex ==
    [][(Called /\ Made.op \in {"set", "remove"} /\ Made.res.tag = "Err")
       => data' = data]_vars

C8_Witness ==
    /\ Len(hist) >= 1
    /\ Last.op = "set"
    /\ Last.res = Err("Seek")
    /\ Last.key \notin DOMAIN data
    /\ \E v \in Values : SetLines(wal, Last.key, v) # {}

(* C9: when set(k, v) returns an error the log was not extended, so get(k)  *)
(* returns the prior value of k in the store and after opening the          *)
(* directory again.                                                         *)
C9_FailedSetKeepsLog ==
    [][(Called /\ Made.op = "set" /\ Made.res.tag = "Err")
       => /\ wal' = wal
          /\ GetResult(data', wal', Made.key) = GetResult(data, wal, Made.key)
          /\ mode = "append"
                 => /\ Replay(wal').ok
                    /\ GetResult(Replay(wal').data, wal', Made.key)
                           = GetResult(data, wal, Made.key)]_vars

(* C10: open fails whenever a line of the log is neither a Set record with  *)
(* key and value nor an Rm record with key only: no line is skipped and no  *)
(* line that is not such a Set is put into the index.                       *)
C10_OpenRefusesForeignLines ==
    (Len(hist) >= 1 /\ Last.op = "open" /\ Last.res = Ok)
        => /\ \A n \in 1..Len(Lines(wal)) : ProperRecord(Lines(wal)[n])
           /\ \A k \in DOMAIN data :
                 /\ data[k] + 1 <= Len(Lines(wal))
                 /\ ProperRecord(Lines(wal)[data[k] + 1])
                 /\ FromStr(Lines(wal)[data[k] + 1]).cmd.action = "Set"

\* line n of the file decodes to a record of the action for the key
IsRecordOf(file, n, action, key) ==
    /\ n < Len(Lines(file))
    /\ LET c == FromStr(Lines(file)[n + 1])
       IN  c.ok /\ c.cmd.action = action /\ c.cmd.key = key

(* C11: in every state reached by open, set, get and remove, a key of the   *)
(* index has a position inside the log, the record there is a Set record of *)
(* that key, and no later Set or Rm record of the key is in the log.        *)
C11_IndexInvariant ==
    mode = "append"
        => \A k \in DOMAIN data :
              /\ IsRecordOf(wal, data[k], "Set", k)
              /\ \A n \in 0..(Len(Lines(wal)) - 1) :
                    n > data[k] => /\ ~IsRecordOf(wal, n, "Set", k)
                                   /\ ~IsRecordOf(wal, n, "Rm", k)

\* the record a call of set or remove writes
RecordOf(call) ==
    IF call.op = "set"
    THEN SerializedCommand(WalCommand("Set", call.key, Some(call.value)))
    ELSE SerializedCommand(WalCommand("Rm", call.key, None))

(* C12: set and remove change the index only in a call that wrote and       *)
(* flushed its whole record and returned Ok, so at every point where the    *)
(* call can stop the log is equal to or ahead of the index: every index     *)
(* entry is the position of a record that is in the log, and a call that    *)
(* returned Ok has its record in the log.  A call that panicked has no      *)
(* index left to compare.                                                   *)
C12_LogAheadOfIndex ==
    [][(Called /\ Made.op \in {"set", "remove"} /\ Made.res.tag # "Panic")
          => /\ data' # data
                => /\ Made.res.tag = "Ok"
                   /\ wal' = WriteAll(mode, wal, cursor, RecordOf(Made)).file
             /\ Made.res.tag = "Ok"
                => wal' = WriteAll(mode, wal, cursor, RecordOf(Made)).file
             /\ \A k \in DOMAIN data' : data'[k] < Len(Lines(wal'))]_vars

\* the same without the last conjunct: the order of write, flush and index
\* update alone
C12_IndexAfterWrite ==
    [][(Called /\ Made.op \in {"set", "remove"} /\ Made.res.tag # "Panic")
          => /\ data' # data
                => /\ Made.res.tag = "Ok"
                   /\ wal' = WriteAll(mode, wal, cursor, RecordOf(Made)).file
             /\ Made.res.tag = "Ok"
                => wal' = WriteAll(mode, wal, cursor, RecordOf(Made)).file]_vars


(* C13: after every set(k, v) that returned Ok the log is the log before    *)
(* the call followed by the one encoded record, and the index entry of k is *)
(* the position at which that record starts (the number of lines before     *)
(* it), neither the position after it nor that of another record.           *)
C13_SetAppendsOneRecord ==
    [][(Called /\ Made.op = "set" /\ Made.res.tag = "Ok")
          => /\ wal' = wal \o RecordOf(Made)
             /\ Len(wal') = Len(wal) + Len(RecordOf(Made))
             /\ Made.key \in DOMAIN data'
             /\ data'[Made.key] = Len(Lines(wal))
             /\ data'[Made.key] \in SetLines(wal', Made.key, Made.value)]_vars

\* the same on stores from open only
C13_SetAppendsOneRecordFromOpen ==
    [][(mode = "append" /\ Called /\ Made.op = "set" /\ Made.res.tag = "Ok")
          => /\ wal' = wal \o RecordOf(Made)
             /\ Len(wal') = Len(wal) + Len(RecordOf(Made))
             /\ Made.key \in DOMAIN data'
             /\ data'[Made.key] = Len(Lines(wal))
             /\ data'[Made.key] \in SetLines(wal', Made.key, Made.value)]_vars


(* C14: get(k) of a key of the index returns an error whenever the line at  *)
(* the stored position is not a Set record of the key k; no value comes     *)
(* from a record of another key or from a record that is not a Set.         *)
C14_GetChecksRecord ==
    [][(/\ Called
        /\ Made.op = "get"
        /\ Made.key \in DOMAIN data
        /\ data[Made.key] < Len(Lines(wal))
        /\ ~IsRecordOf(wal, data[Made.key], "Set", Made.key))
          => Made.res.tag = "Err"]_vars


(* C15: get(k) of a key that is not in the index returns None and leaves    *)
(* the contents of the log and the position of the file handle as they      *)
(* were before the call.                                                    *)
C15_GetAbsentTouchesNothing ==
    [][(Called /\ Made.op = "get" /\ Made.key \notin DOMAIN data)
          => /\ Made.res = OkNone
             /\ wal' = wal
             /\ cursor' = cursor]_vars

\* the same without the position of the handle
C15_GetAbsentKeepsLog ==
    [][(Called /\ Made.op = "get" /\ Made.key \notin DOMAIN data)
          => /\ Made.res = OkNone
             /\ wal' = wal]_vars


\* the steps of set, get, remove and open that do I/O
IOSteps == {"Open", "Seek", "Read", "Write", "Flush"}

(* C16: a call of set, get, remove or open in which an I/O step (open,      *)
(* seek, read, write or flush) failed returned an error; no call returned   *)
(* Ok, or anything but Err, after one of its I/O steps failed.              *)
C16_NoFailureIgnored ==
    \A i \in Calls : hist[i].res.e \in IOSteps => hist[i].res.tag = "Err"


(* C17: get(k) of a key of the index whose stored position is at or past    *)
(* the end of the log, so that no record is there, returns an error and     *)
(* not None.                                                                *)
C17_GetPastEndIsError ==
    [][(/\ Called
        /\ Made.op = "get"
        /\ Made.key \in DOMAIN data
        /\ data[Made.key] >= Len(Lines(wal)))
          => Made.res.tag = "Err"]_vars


\* set and remove as functions of the state of a store s (its mode, file,
\* handle position and index): the state after the call and its result
SetOn(s, key, value) ==
    LET w == WriteAll(s.mode, s.wal, s.cursor,
                      SerializedCommand(WalCommand("Set", key, Some(value))))
    IN  [mode |-> s.mode, wal |-> w.file, cursor |-> Len(w.file),
         data |-> Insert(s.data, key, SetPointer(w.file)), res |-> Ok]

RemoveOn(s, key) ==
    IF key \in DOMAIN s.data
    THEN LET w == WriteAll(s.mode, s.wal, s.cursor,
                           SerializedCommand(WalCommand("Rm", key, None)))
         IN  [mode |-> s.mode, wal |-> w.file, cursor |-> w.pos,
              data |-> Delete(s.data, key), res |-> Ok]
    ELSE [s EXCEPT !.res = Err("KeyNotFound")]

\* the store after the set and remove calls of hist[i..], in their order and
\* without the get calls between them, with the results of those calls
RECURSIVE WithoutGets(_, _, _)
WithoutGets(i, s, results) ==
    IF i > Len(hist) THEN [store |-> s, results |-> results]
    ELSE IF hist[i].op = "set"
         THEN LET t == SetOn(s, hist[i].key, hist[i].value)
              IN  WithoutGets(i + 1, t, Append(results, t.res))
    ELSE IF hist[i].op = "remove"
         THEN LET t == RemoveOn(s, hist[i].key)
              IN  WithoutGets(i + 1, t, Append(results, t.res))
    ELSE WithoutGets(i + 1, s, results)

\* the results of the set and remove calls of the history, in their order
RECURSIVE Results(_)
Results(i) ==
    IF i > Len(hist) THEN <<>>
    ELSE IF hist[i].op \in {"set", "remove"} THEN <<hist[i].res>> \o Results(i + 1)
    ELSE Results(i + 1)

\* the store as open or KvStore::new returned it over the empty file
Fresh(op) ==
    [mode |-> IF op = "open" THEN "append" ELSE "rw",
     wal |-> <<>>, cursor |-> 0, data |-> EmptyIndex, res |-> Ok]

OneStore == Len(hist) >= 1 /\ \A i \in Calls : hist[i].op # "drop"

(* C18: get calls have no influence on later calls: the log, the index, the *)
(* results of the set and remove calls and the result of any get that       *)
(* follows are what the same set and remove calls give without the get      *)
(* calls between them, on a store from open and on a store from             *)
(* KvStore::new over a read/write file.                                     *)
C18_GetsHaveNoInfluence ==
    OneStore
        => LET r == WithoutGets(2, Fresh(hist[1].op), <<>>)
           IN  /\ r.store.wal = wal
               /\ r.store.data = data
               /\ r.results = Results(2)
               /\ \A k \in Keys :
                     GetResult(r.store.data, r.store.wal, k) = GetResult(data, wal, k)

\* the same on stores from open only
C18_GetsHaveNoInfluenceFromOpen == FromOpen => C18_GetsHaveNoInfluence


(* C19: on a store from open, a set(k, _) or remove(k) that returned Ok     *)
(* changes the index entry and the get result of k only: every other key    *)
(* k2 has the index entry and the get result it had before the call.        *)
C19_OtherKeysUnchanged ==
    [][(/\ mode = "append"
        /\ Called
        /\ Made.op \in {"set", "remove"}
        /\ Made.res = Ok)
          => \A k2 \in Keys \ {Made.key} :
                /\ k2 \in DOMAIN data' <=> k2 \in DOMAIN data
                /\ k2 \in DOMAIN data => data'[k2] = data[k2]
                /\ GetResult(data', wal', k2) = GetResult(data, wal, k2)]_vars

C19_Witness ==
    /\ FromOpen
    /\ mode = "append"
    /\ Len(hist) >= 4
    /\ Did(Len(hist) - 1, "set", <<"a">>)
    /\ Last.op = "remove" /\ Last.key = <<"a">> /\ Last.res = Ok
    /\ <<Q>> \in DOMAIN data
    /\ GetResult(data, wal, <<Q>>) = OkSome(<<Q, NL>>)


----------------------------------------------------------------------------
(* The command line: src/bin/kvs.rs *)

\* what println!("{}", error) prints for the errors of the store; the texts
\* of I/O and serde_json errors come from outside the program and are
\* written by the name of the step that failed
Display(e) ==
    IF e = "KeyNotFound" THEN "Key not found"
    ELSE IF e = "IndexError" THEN "index error: index points to a key with no value"
    ELSE e

\* what a handler leaves behind: the pieces printed to stdout and the
\* argument of exit
Exit(out, code) == [out |-> out, code |-> code]

\* mutant of get_handler: a missing key is an error, as it is in rm_handler
get_handler_MissingIsError(res) ==
    IF res.tag = "Some" THEN Exit(res.v \o <<NL>>, 0)
    ELSE IF res.tag = "None" THEN Exit(<<"Key not found", NL>>, 1)
    ELSE Exit(<<Display(res.e), NL>>, 1)

\* the handlers, as functions of the result of the call of the store they
\* make
get_handler(res) ==
    IF res.tag = "Some" THEN Exit(res.v \o <<NL>>, 0)
    ELSE IF res.tag = "None" THEN Exit(<<"Key not found", NL>>, 0)
    ELSE Exit(<<Display(res.e), NL>>, 1)

set_handler(res) ==
    IF res.tag = "Ok" THEN Exit(<<>>, 0)
    ELSE Exit(<<Display(res.e), NL>>, 1)

rm_handler(res) ==
    IF res.tag = "Ok" THEN Exit(<<>>, 0)
    ELSE Exit(<<Display(res.e), NL>>, 1)

\* the handler main chooses for a call
Handler(call) ==
    IF call.op = "get" THEN get_handler(call.res)
    ELSE IF call.op = "set" THEN set_handler(call.res)
    ELSE rm_handler(call.res)

(* C20: the handler of a get of a key that is not in the index prints the   *)
(* key-not-found message and exits with 0; the handler of a remove of such  *)
(* a key prints the error and exits with 1; every Err of get, set or remove *)
(* gives exit code 1 and every success exit code 0.                         *)
C20_CliExitCodes ==
    [][(Called /\ Made.op \in {"get", "set", "remove"} /\ Made.res.tag # "Panic")
          => LET h == Handler(Made)
             IN  /\ (Made.op = "get" /\ Made.key \notin DOMAIN data /\ Made.res.tag # "Err")
                       => h = Exit(<<"Key not found", NL>>, 0)
                 /\ (Made.op = "remove" /\ Made.key \notin DOMAIN data)
                       => h = Exit(<<"Key not found", NL>>, 1)
                 /\ Made.res.tag = "Err"
                       => h = Exit(<<Display(Made.res.e), NL>>, 1)
                 /\ Made.res.tag \in {"Ok", "Some", "None"} => h.code = 0]_vars

C20_Witness ==
    /\ Len(hist) = 4
    /\ hist[2].op = "get" /\ hist[2].res = OkNone
    /\ hist[3].op = "remove" /\ hist[3].res = Err("KeyNotFound")
    /\ hist[4].op = "set" /\ hist[4].res = Err("Flush")

=============================================================================
